---- MODULE Spec2Model ----
(***************************************************************************)
(* A model of the C-Bitset library (src/bitset.h, src/bitset.c) and of the *)
(* two handles its driver (src/main.c) works with.                         *)
(*                                                                         *)
(* A BitSet is a struct { uint8_t *bits; size_t bit_len; }.  The storage   *)
(* lives in a heap of buffers, so that two handles pointing at one buffer  *)
(* (sharing) and accesses outside an allocation are expressible.           *)
(***************************************************************************)
EXTENDS Integers, Sequences, FiniteSets, TLC

(***************************************************************************)
(* Bounds of the model.                                                    *)
(***************************************************************************)
MaxBitLen == 9      \* largest bit_len passed to BitSet_init (more than one byte)
MaxSteps  == 4      \* longest sequence of library calls explored
MaxDims   == 3      \* largest num_dims of the index mapping
MaxDim    == 3      \* largest extent dims[i] of the index mapping
MaxUnwritten == 1   \* most bytes a run reads from malloc storage before they are written

(***************************************************************************)
(* Program constants.                                                      *)
(***************************************************************************)
ByteBits == 8       \* bits per uint8_t storage element
ByteMod  == 256     \* 2^8: conversion of an int to uint8_t is modulo 256
NULL     == 0       \* the null pointer
INDETERMINATE == -1 \* a field of a BitSet that was declared but never written

\* The bit_len arguments given to BitSet_init: no storage, one bit, part of a
\* byte, a whole byte, and more than a byte with padding in the last one.
BitLens == {0, 1, 3, 8, MaxBitLen}

Handles == {1, 2}   \* the BitSet objects of the caller (bs and bs2 of main)
\* The addresses calloc/malloc can return.  A call allocates at most one
\* buffer and a run makes MaxSteps calls, so the allocator never runs out of
\* addresses, however many buffers have lost their owner.
Addrs   == 1 .. MaxSteps

VARIABLES
    bs,      \* bs[h]: the struct BitSet of handle h, [bits, bit_len]
    heap,    \* heap[a]: the buffer at address a, [live, mem]; mem is 0-indexed
    op,      \* the last library call: [name, h, src, index, again]
    origin,  \* origin[h]: how h got its storage: "none", "init" or "copy"
    lineage, \* lineage[h]: the calls that made the content of h, see Lineage
    acc,     \* the <<address, offset>> pairs the last call read or wrote
    prev,    \* [bs, heap] as they were before the last call
    steps,   \* number of library calls made
    unwritten, \* number of bytes read from malloc storage nothing had written
    BITSET_DEBUG_MODE, \* 1: BITSET_ASSERT checks its condition; 0: it expands to nothing
    BITSET_DEBUG_BREAK, \* what raise(SIGTRAP) does: "ends" the process (the default
             \* disposition) or "returns" (the signal is ignored, blocked or
             \* handled, or a debugger continues); ((void)0) "returns"
    status,  \* the process: "running", "trapped" (ended by the signal of
             \* BITSET_DEBUG_BREAK) or "undefined" (it executed undefined behaviour)
    dims,    \* index mapping: extents
    indices, \* index mapping: coordinates given to linear_index
    lin,     \* index mapping: result of linear_index
    out,     \* index mapping: result of inverse_linear_index
    ipc      \* index mapping: position of the round trip

vars == <<bs, heap, op, origin, lineage, acc, prev, steps, unwritten,
          BITSET_DEBUG_MODE, BITSET_DEBUG_BREAK, status, dims, indices, lin, out, ipc>>
bitvars == <<bs, heap, op, origin, lineage, acc, prev, steps, unwritten,
             BITSET_DEBUG_MODE, BITSET_DEBUG_BREAK, status>>
idxvars == <<dims, indices, lin, out, ipc>>

(***************************************************************************)
(* C integer arithmetic.  A uint8_t operand is promoted to int; the        *)
(* bitwise operators act on two's-complement ints; assignment to a         *)
(* uint8_t converts modulo 256.                                            *)
(***************************************************************************)
Shl1(k) == 2 ^ k                       \* 1 << k        (0 <= k <= 7)
Shr(x, k) == x \div (2 ^ k)            \* x >> k        (x >= 0)
IntNot(x) == -x - 1                    \* ~x

RECURSIVE IntAnd(_, _)
IntAnd(x, y) ==                        \* x & y
    IF x = 0 \/ y = 0 THEN 0
    ELSE IF x = -1 THEN y
    ELSE IF y = -1 THEN x
    ELSE (x % 2) * (y % 2) + 2 * IntAnd(x \div 2, y \div 2)

RECURSIVE IntOr(_, _)
IntOr(x, y) ==                         \* x | y
    IF x = 0 THEN y
    ELSE IF y = 0 THEN x
    ELSE IF x = -1 \/ y = -1 THEN -1
    ELSE (IF x % 2 = 1 \/ y % 2 = 1 THEN 1 ELSE 0) + 2 * IntOr(x \div 2, y \div 2)

RECURSIVE IntXor(_, _)
IntXor(x, y) ==                        \* x ^ y
    IF x = 0 THEN y
    ELSE IF y = 0 THEN x
    ELSE IF x = -1 THEN IntNot(y)
    ELSE IF y = -1 THEN IntNot(x)
    ELSE (IF x % 2 # y % 2 THEN 1 ELSE 0) + 2 * IntXor(x \div 2, y \div 2)

ToU8(v) == v % ByteMod                 \* (uint8_t) v

(***************************************************************************)
(* The byte-level statements of the single-bit operations.                 *)
(***************************************************************************)
\* Mutation: the byte offset rounded up instead of down.
ByteOf_RoundedUp(index) == (index + ByteBits - 1) \div ByteBits

ByteOf(index) == index \div ByteBits                       \* index / 8
BitOf(index)  == index % ByteBits                          \* index % 8

\* Mutations: "=" for "|=", a missing "~".
SetByte_Assign(b, index) == ToU8(Shl1(BitOf(index)))
ClearByte_NoComplement(b, index) == ToU8(IntAnd(b, Shl1(BitOf(index))))
\* Mutation: unary minus for "~".
NotByte_Negate(b) == ToU8(-b)

\* Mutation: every bit of the byte flipped.
FlipByte_WholeByte(b, index) == ToU8(IntXor(b, 255))

SetByte(b, index)   == ToU8(IntOr(b, Shl1(BitOf(index))))           \* b |= 1 << (index % 8)
ClearByte(b, index) == ToU8(IntAnd(b, IntNot(Shl1(BitOf(index)))))  \* b &= ~(1 << (index % 8))
FlipByte(b, index)  == ToU8(IntXor(b, Shl1(BitOf(index))))          \* b ^= 1 << (index % 8)
GetBit(b, index)    == IntAnd(Shr(b, BitOf(index)), 1)              \* (b >> (index % 8)) & 1

OrByte(d, s)  == ToU8(IntOr(d, s))     \* dest->bits[i] |= src->bits[i]
AndByte(d, s) == ToU8(IntAnd(d, s))    \* dest->bits[i] &= src->bits[i]
XorByte(d, s) == ToU8(IntXor(d, s))    \* dest->bits[i] ^= src->bits[i]
NotByte(b)    == ToU8(IntNot(b))       \* bs->bits[i] = ~bs->bits[i]

(***************************************************************************)
(* The heap.                                                               *)
(***************************************************************************)
Zeros(n) == [i \in 0 .. n - 1 |-> 0]                 \* calloc(n, 1)
Unwritten(n) == [i \in 0 .. n - 1 |-> INDETERMINATE] \* malloc(n)
FreeBuf  == [live |-> FALSE, mem |-> Zeros(0)]

\* The byte at offset off of the buffer at a.  A read outside the allocation
\* is recorded in acc by the caller; the value it yields is not modelled.
Load(hp, a, off) ==
    IF a \in Addrs /\ off \in DOMAIN hp[a].mem THEN hp[a].mem[off] ELSE 0

\* The heap after the loop "for (i = 0; i < n; i++) p[i] = vals[i]" over the
\* buffer at a.  Stores outside the allocation land outside the modelled
\* buffers; acc records them.
StoreLoop(hp, a, n, vals) ==
    IF a \in Addrs
    THEN [hp EXCEPT ![a].mem = [off \in DOMAIN hp[a].mem |->
                                   IF off < n THEN vals[off] ELSE hp[a].mem[off]]]
    ELSE hp

\* The heap after the store "p[off] = v" into the buffer at a.
StoreAt(hp, a, off, v) ==
    IF a \in Addrs /\ off \in DOMAIN hp[a].mem
    THEN [hp EXCEPT ![a].mem[off] = v]
    ELSE hp

Touched(a, n) == {<<a, off>> : off \in 0 .. n - 1}

(***************************************************************************)
(* BitSet_get_byte_len                                                     *)
(***************************************************************************)
\* Mutation: the division without the rounding term.
BitSet_get_byte_len_Floor(b) == b.bit_len \div 8

BitSet_get_byte_len(b) == (b.bit_len + 7) \div 8

(***************************************************************************)
(* State predicates on handles.                                            *)
(***************************************************************************)
\* h owns storage: its bits field points at a live buffer.
Initialized(h) == bs[h].bits \in Addrs /\ heap[bs[h].bits].live

\* A handle that init or copy_construct returned from without storage (the
\* allocation failed).  The caller was told nothing, so it goes on to use it.
Unallocated(h) == origin[h] # "none" /\ bs[h].bits = NULL

FreeAddrs == {a \in Addrs : ~heap[a].live}

\* calloc/malloc return the address of an unused buffer.  Which one is
\* immaterial (the library never compares or orders addresses, so the model is
\* symmetric under renaming them): the lowest is taken.
Alloc == CHOOSE a \in FreeAddrs : \A b \in FreeAddrs : a <= b

\* A call: its name, the handle it acts on, its second operand (0: none), its
\* index or bit_len argument (0: none), and whether it repeats the call before.
NoOp == [name |-> "none", h |-> 0, src |-> 0, index |-> 0, again |-> FALSE]
Call(name, h, src, index) ==
    [name |-> name, h |-> h, src |-> src, index |-> index,
     again |-> (op.name = name /\ op.h = h /\ op.src = src /\ op.index = index)]

\* BITSET_ASSERT(cond, msg): what becomes of the process.  In a debug build a
\* false condition prints msg to stderr and raises SIGTRAP (SIGABRT where
\* SIGTRAP is not yet defined).  The macro has no return and no abort: when
\* raise returns, the function goes on with the statement after the macro.  In
\* a release build the macro is empty.
BITSET_ASSERT(cond) ==
    IF BITSET_DEBUG_MODE = 1 /\ ~cond /\ BITSET_DEBUG_BREAK = "ends"
    THEN "trapped"
    ELSE "running"

\* The calls that made the content of each handle, after the call:
\*   "none"     the handle is not constructed;
\*   "indexed"  BitSet_init, then only BitSet_set / clear / flip, clear_all,
\*              copy_construct from an "indexed" vector, and or / and / xor
\*              with "indexed" vectors of the same bit_len;
\*   "whole"    it went through BitSet_set_all or BitSet_not, or was copied
\*              from or combined with a vector that did;
\*   "mixed"    neither: it was combined with a vector of another bit_len, or
\*              copied from itself (from storage nothing had written).
Lineage(call) ==
    LET h == call.h
        src == call.src
        is(l) == [lineage EXCEPT ![h] = l]
    IN
    IF call.name = "init" THEN is("indexed")
    ELSE IF call.name = "free" THEN is("none")
    ELSE IF call.name \in {"set_all", "not"} THEN is("whole")
    ELSE IF call.name = "copy_construct"
    THEN is(IF h = src THEN "mixed" ELSE lineage[src])
    ELSE IF call.name \in {"or", "and", "xor"}
    THEN IF "whole" \in {lineage[h], lineage[src]} THEN is("whole")
         ELSE IF /\ lineage[h] = "indexed" /\ lineage[src] = "indexed"
                 /\ bs[h].bit_len = bs[src].bit_len
              THEN is("indexed")
              ELSE is("mixed")
    ELSE lineage

\* The bytes a call reads before anything wrote them: BitSet_copy_construct
\* with dest = src reads the buffer malloc has just returned.
UnwrittenReads(call, touched) ==
    IF call.name = "copy_construct" /\ call.h = call.src
    THEN {t \in touched : t[1] \in Addrs}
    ELSE {}

\* Every library call records itself, what it touched, the state before it and
\* what became of the process.  A process that was ended, or whose behaviour
\* is undefined, makes no further call.
Outcome(call, touched, st) ==
    /\ status = "running"
    /\ unwritten' = unwritten + Cardinality(UnwrittenReads(call, touched))
    /\ op' = call
    /\ acc' = touched
    /\ prev' = [bs |-> bs, heap |-> heap]
    /\ steps' = steps + 1
    /\ origin' = IF call.name = "init" THEN [origin EXCEPT ![call.h] = "init"]
                 ELSE IF call.name = "copy_construct" THEN [origin EXCEPT ![call.h] = "copy"]
                 ELSE IF call.name = "free" THEN [origin EXCEPT ![call.h] = "none"]
                 ELSE origin
    /\ lineage' = Lineage(call)
    /\ status' = st
    /\ UNCHANGED <<BITSET_DEBUG_MODE, BITSET_DEBUG_BREAK>>
    /\ UNCHANGED idxvars

\* A call whose assertions hold and whose accesses are inside its storage.
Record(call, touched) == Outcome(call, touched, "running")

(***************************************************************************)
(* BitSet_init                                                             *)
(***************************************************************************)
BitSet_init(h, bit_len) ==
    /\ steps < MaxSteps
    /\ ~Initialized(h)
    /\ LET a == Alloc
           b == [bits |-> a, bit_len |-> bit_len]
       IN
       /\ bs' = [bs EXCEPT ![h] = b]
       /\ heap' = [heap EXCEPT ![a] = [live |-> TRUE,
                                       mem |-> Zeros(BitSet_get_byte_len(b))]]
       /\ Record(Call("init", h, 0, bit_len), {})

(***************************************************************************)
(* BitSet_set_all / BitSet_clear_all                                       *)
(***************************************************************************)
\* Mutation: 0x7F for 0xFF.
SetAllByte_7F(i) == 127

SetAllByte(i) == 255      \* bs->bits[i] = 0xFF
ClearAllByte(i) == 0      \* bs->bits[i] = 0

BitSet_set_all(h) ==
    /\ steps < MaxSteps
    /\ Initialized(h)
    /\ LET byte_len == BitSet_get_byte_len(bs[h]) IN
       /\ heap' = StoreLoop(heap, bs[h].bits, byte_len,
                          [i \in 0 .. byte_len - 1 |-> SetAllByte(i)])
       /\ UNCHANGED bs
       /\ Record(Call("set_all", h, 0, 0), Touched(bs[h].bits, byte_len))

BitSet_clear_all(h) ==
    /\ steps < MaxSteps
    /\ Initialized(h)
    /\ LET byte_len == BitSet_get_byte_len(bs[h]) IN
       /\ heap' = StoreLoop(heap, bs[h].bits, byte_len,
                          [i \in 0 .. byte_len - 1 |-> ClearAllByte(i)])
       /\ UNCHANGED bs
       /\ Record(Call("clear_all", h, 0, 0), Touched(bs[h].bits, byte_len))

(***************************************************************************)
(* BitSet_set / BitSet_clear / BitSet_get / BitSet_flip                    *)
(***************************************************************************)
BitSet_set(h, index) ==
    /\ steps < MaxSteps
    /\ Initialized(h)
    /\ index < bs[h].bit_len
    /\ heap' = StoreAt(heap, bs[h].bits, ByteOf(index),
                       SetByte(Load(heap, bs[h].bits, ByteOf(index)), index))
    /\ UNCHANGED bs
    /\ Record(Call("set", h, 0, index), {<<bs[h].bits, ByteOf(index)>>})

BitSet_clear(h, index) ==
    /\ steps < MaxSteps
    /\ Initialized(h)
    /\ index < bs[h].bit_len
    /\ heap' = StoreAt(heap, bs[h].bits, ByteOf(index),
                       ClearByte(Load(heap, bs[h].bits, ByteOf(index)), index))
    /\ UNCHANGED bs
    /\ Record(Call("clear", h, 0, index), {<<bs[h].bits, ByteOf(index)>>})

\* BitSet_get reads and changes nothing: the value it returns for the struct
\* b over the heap hp, and the one byte it reads.
BitSet_get(b, hp, index) == GetBit(Load(hp, b.bits, ByteOf(index)), index)
BitSet_get_reads(b, index) == {<<b.bits, ByteOf(index)>>}

BitSet_flip(h, index) ==
    /\ steps < MaxSteps
    /\ Initialized(h)
    /\ index < bs[h].bit_len
    /\ heap' = StoreAt(heap, bs[h].bits, ByteOf(index),
                       FlipByte(Load(heap, bs[h].bits, ByteOf(index)), index))
    /\ UNCHANGED bs
    /\ Record(Call("flip", h, 0, index), {<<bs[h].bits, ByteOf(index)>>})

(***************************************************************************)
(* BitSet_free                                                             *)
(***************************************************************************)
\* Mutation: the buffer freed, the fields of the struct left as they were.
BitSet_free_KeepsFields(h) ==
    /\ steps < MaxSteps
    /\ Initialized(h)
    /\ heap' = [heap EXCEPT ![bs[h].bits] = FreeBuf]
    /\ UNCHANGED bs
    /\ Record(Call("free", h, 0, 0), {})

BitSet_free(h) ==
    /\ steps < MaxSteps
    /\ Initialized(h)
    /\ heap' = [heap EXCEPT ![bs[h].bits] = FreeBuf]
    /\ bs' = [bs EXCEPT ![h] = [bits |-> NULL, bit_len |-> 0]]
    /\ Record(Call("free", h, 0, 0), {})

(***************************************************************************)
(* BitSet_copy_construct                                                   *)
(***************************************************************************)
\* Mutation: a shallow copy, the struct copied and no storage allocated.
BitSet_copy_construct_Shallow(dest, src) ==
    /\ steps < MaxSteps
    /\ ~Initialized(dest)
    /\ Initialized(src)
    /\ bs' = [bs EXCEPT ![dest] = bs[src]]
    /\ UNCHANGED heap
    /\ Record(Call("copy_construct", dest, src, 0), {})

\* The bytes a fresh malloc buffer may hold when they are read before they are
\* written: any value of a uint8_t.
MallocBytes == 0 .. ByteMod - 1

\* dest is expected to be uninitialized, and nothing checks it (the free of
\* dest->bits is commented out): the buffer dest owned stays allocated, with
\* no handle pointing at it.  With dest = src (BitSetWrapper::operator= on
\* itself) src->bits is the fresh buffer by the time the loop reads it.  Nor is
\* src->bits checked: when it is NULL (src is Unallocated) and there is a byte
\* to copy, the first iteration of the loop reads through the null pointer,
\* after dest->bits and dest->bit_len were assigned.
BitSet_copy_construct(dest, src) ==
    /\ steps < MaxSteps
    /\ Initialized(src) \/ Unallocated(src)
    /\ LET byte_len == BitSet_get_byte_len(bs[src])
           a == Alloc
           sa == IF dest = src THEN a ELSE bs[src].bits
       IN
       \E junk \in IF dest = src THEN [0 .. byte_len - 1 -> MallocBytes]
                                 ELSE {Unwritten(byte_len)} :
          LET fresh == [heap EXCEPT ![a] = [live |-> TRUE, mem |-> junk]]
              copied == [i \in 0 .. byte_len - 1 |-> Load(fresh, sa, i)]  \* dest->bits[i] = src->bits[i]
          IN
          /\ bs' = [bs EXCEPT ![dest] = [bits |-> a, bit_len |-> bs[src].bit_len]]
          /\ IF sa = NULL /\ byte_len > 0
             THEN /\ heap' = fresh
                  /\ Outcome(Call("copy_construct", dest, src, 0),
                             {<<sa, 0>>}, "undefined")
             ELSE /\ heap' = StoreLoop(fresh, a, byte_len, copied)
                  /\ Record(Call("copy_construct", dest, src, 0),
                            Touched(a, byte_len) \cup Touched(sa, byte_len))

\* BitSet_copy_construct as the library documents it: dest is uninitialized,
\* an object other than src.
BitSet_copy_construct_Uninitialized(dest, src) ==
    /\ ~Initialized(dest)
    /\ dest # src
    /\ BitSet_copy_construct(dest, src)

\* BitSetWrapper::operator=: BitSet_copy_construct onto a constructed object,
\* which may be the source itself.
BitSetWrapper_assign(dest, src) ==
    /\ Initialized(dest) \/ Unallocated(dest)
    /\ BitSet_copy_construct(dest, src)

(***************************************************************************)
(* BitSet_or / BitSet_and / BitSet_xor                                     *)
(***************************************************************************)
\* Mutation: the comparison reversed, so the longer operand sets the count.
Shorter_Reversed(d, s) == IF d.bit_len > s.bit_len THEN d ELSE s

\* dest->bit_len < src->bit_len ? dest : src
Shorter(d, s) == IF d.bit_len < s.bit_len THEN d ELSE s

CombineByte(name, d, s) ==
    IF name = "or" THEN OrByte(d, s)
    ELSE IF name = "and" THEN AndByte(d, s)
    ELSE XorByte(d, s)

Combine(name, dest, src) ==
    /\ steps < MaxSteps
    /\ Initialized(dest)
    /\ Initialized(src)
    /\ LET byte_len == BitSet_get_byte_len(Shorter(bs[dest], bs[src]))
           da == bs[dest].bits
           sa == bs[src].bits
           combined == [i \in 0 .. byte_len - 1 |->
                           CombineByte(name, Load(heap, da, i), Load(heap, sa, i))]
       IN
       /\ heap' = StoreLoop(heap, da, byte_len, combined)
       /\ UNCHANGED bs
       /\ Record(Call(name, dest, src, 0),
                 Touched(da, byte_len) \cup Touched(sa, byte_len))

BitSet_or(dest, src)  == Combine("or", dest, src)
BitSet_and(dest, src) == Combine("and", dest, src)
BitSet_xor(dest, src) == Combine("xor", dest, src)

(***************************************************************************)
(* BitSet_not                                                              *)
(***************************************************************************)
BitSet_not(h) ==
    /\ steps < MaxSteps
    /\ Initialized(h)
    /\ LET byte_len == BitSet_get_byte_len(bs[h])
           a == bs[h].bits
           complemented == [i \in 0 .. byte_len - 1 |-> NotByte(Load(heap, a, i))]
       IN
       /\ heap' = StoreLoop(heap, a, byte_len, complemented)
       /\ UNCHANGED bs
       /\ Record(Call("not", h, 0, 0), Touched(a, byte_len))

(***************************************************************************)
(* BitSet_equals                                                           *)
(***************************************************************************)
\* Mutation: only the bits below bit_len compared.
BitSet_equals_ValidBitsOnly(b1, b2, hp) ==
    IF b1.bit_len # b2.bit_len THEN 0
    ELSE IF \E i \in 0 .. b1.bit_len - 1 : BitSet_get(b1, hp, i) # BitSet_get(b2, hp, i)
         THEN 0
         ELSE 1

\* BitSet_equals reads and changes nothing: the value it returns for the
\* structs b1, b2 over the heap hp.
BitSet_equals(b1, b2, hp) ==
    IF b1.bit_len # b2.bit_len THEN 0
    ELSE IF \E i \in 0 .. BitSet_get_byte_len(b1) - 1 :
              Load(hp, b1.bits, i) # Load(hp, b2.bits, i)
         THEN 0
         ELSE 1

\* The bytes its comparison loop reads: it returns at the first difference.
BitSet_equals_reads(b1, b2, hp) ==
    IF b1.bit_len # b2.bit_len THEN {}
    ELSE LET visited == {i \in 0 .. BitSet_get_byte_len(b1) - 1 :
                           \A j \in 0 .. i - 1 :
                              Load(hp, b1.bits, j) = Load(hp, b2.bits, j)}
         IN {<<b1.bits, i>> : i \in visited} \cup {<<b2.bits, i>> : i \in visited}

(***************************************************************************)
(* linear_index / inverse_linear_index.  The C arrays dims[0 .. num_dims-1]*)
(* are the sequences dims[1 .. num_dims] here: C's dims[i] is dims[i + 1]. *)
(***************************************************************************)
\* The loop "for (i = num_dims; i-- > 0;)" of linear_index, entered with the
\* counter at i (before its decrement).
RECURSIVE linear_index_loop(_, _, _, _, _)
linear_index_loop(ds, is, i, index, multiplier) ==
    IF i > 0
    THEN linear_index_loop(ds, is, i - 1,
                           index + is[i] * multiplier,    \* index += indices[i] * multiplier
                           multiplier * ds[i])            \* multiplier *= dims[i]
    ELSE index

\* Mutation: the dimensions folded first to last (first dimension fastest).
RECURSIVE linear_index_loop_up(_, _, _, _, _)
linear_index_loop_up(ds, is, i, index, multiplier) ==
    IF i <= Len(ds)
    THEN linear_index_loop_up(ds, is, i + 1, index + is[i] * multiplier, multiplier * ds[i])
    ELSE index
linear_index_ColumnMajor(num_dims, ds, is) == linear_index_loop_up(ds, is, 1, 0, 1)

linear_index(num_dims, ds, is) == linear_index_loop(ds, is, num_dims, 0, 1)

\* The loop "for (i = 0; i < num_dims; ++i)" of inverse_linear_index.
RECURSIVE inverse_linear_index_loop(_, _, _, _, _)
inverse_linear_index_loop(num_dims, ds, i, index, is) ==
    IF i < num_dims
    THEN LET dim_index == num_dims - 1 - i IN
         inverse_linear_index_loop(num_dims, ds, i + 1,
             index \div ds[dim_index + 1],                              \* index /= dims[dim_index]
             [is EXCEPT ![dim_index + 1] = index % ds[dim_index + 1]])  \* indices[dim_index] = index % dims[dim_index]
    ELSE is

\* The caller's indices array is written in place; it starts unwritten.
inverse_linear_index(num_dims, ds, index) ==
    inverse_linear_index_loop(num_dims, ds, 0, index,
                              [k \in 1 .. num_dims |-> INDETERMINATE])

\* size_t index = linear_index(num_dims, dims, vec);
CallLinearIndex ==
    /\ ipc = "start"
    /\ lin' = linear_index(Len(dims), dims, indices)
    /\ ipc' = "mapped"
    /\ UNCHANGED <<dims, indices, out>>
    /\ UNCHANGED bitvars

\* inverse_linear_index(num_dims, dims, index, out);
CallInverseLinearIndex ==
    /\ ipc = "mapped"
    /\ out' = inverse_linear_index(Len(dims), dims, lin)
    /\ ipc' = "done"
    /\ UNCHANGED <<dims, indices, lin>>
    /\ UNCHANGED bitvars

(***************************************************************************)
(* The library driven by a caller that respects the preconditions: valid   *)
(* indices, initialized operands, init and copy_construct onto handles     *)
(* that own no storage.                                                    *)
(***************************************************************************)
IdxIdle ==
    /\ dims = <<>>
    /\ indices = <<>>
    /\ lin = 0
    /\ out = <<>>
    /\ ipc = "idle"

BitIdle ==
    /\ bs = [h \in Handles |-> [bits |-> INDETERMINATE, bit_len |-> INDETERMINATE]]
    /\ heap = [a \in Addrs |-> FreeBuf]
    /\ op = NoOp
    /\ origin = [h \in Handles |-> "none"]
    /\ lineage = [h \in Handles |-> "none"]
    /\ acc = {}
    /\ prev = [bs |-> bs, heap |-> heap]
    /\ steps = 0
    /\ unwritten = 0
    /\ status = "running"

\* Built as main is, without NDEBUG: BITSET_DEBUG_MODE is 1; run with the
\* default signal dispositions.
Init ==
    /\ BitIdle
    /\ BITSET_DEBUG_MODE = 1
    /\ BITSET_DEBUG_BREAK = "ends"
    /\ IdxIdle

Next ==
    \/ \E h \in Handles, n \in BitLens : BitSet_init(h, n)
    \/ \E h \in Handles : BitSet_set_all(h)
    \/ \E h \in Handles : BitSet_clear_all(h)
    \/ \E h \in Handles, i \in 0 .. MaxBitLen : BitSet_set(h, i)
    \/ \E h \in Handles, i \in 0 .. MaxBitLen : BitSet_clear(h, i)
    \/ \E h \in Handles, i \in 0 .. MaxBitLen : BitSet_flip(h, i)
    \/ \E h \in Handles : BitSet_free(h)
    \/ \E d \in Handles, s \in Handles : BitSet_copy_construct_Uninitialized(d, s)
    \/ \E d \in Handles, s \in Handles : BitSet_or(d, s)
    \/ \E d \in Handles, s \in Handles : BitSet_and(d, s)
    \/ \E d \in Handles, s \in Handles : BitSet_xor(d, s)
    \/ \E h \in Handles : BitSet_not(h)

Spec == Init /\ [][Next]_vars

\* The same caller, with a C++ wrapper whose objects are also assigned, to
\* other objects and to themselves.  Every byte a self-assignment reads
\* before it is written takes any of 256 values: MaxUnwritten bounds how many
\* such bytes a run reads.
NextAssign ==
    \/ Next
    \/ \E d \in Handles, s \in Handles :
          /\ d = s => unwritten + BitSet_get_byte_len(bs[d]) <= MaxUnwritten
          /\ BitSetWrapper_assign(d, s)

SpecAssign == Init /\ [][NextAssign]_vars

(***************************************************************************)
(* The index mapping on its own: a caller picks dims (every extent >= 1)   *)
(* and in-range indices, maps them to a linear index and back.             *)
(***************************************************************************)
DimsOfLen(n) == [1 .. n -> 1 .. MaxDim]
AllDims == UNION {DimsOfLen(n) : n \in 0 .. MaxDims}
InRange(ds) == {is \in [1 .. Len(ds) -> 0 .. MaxDim - 1] :
                  \A k \in 1 .. Len(ds) : is[k] < ds[k]}

InitIndex ==
    /\ BitIdle
    /\ BITSET_DEBUG_MODE = 1
    /\ BITSET_DEBUG_BREAK = "ends"
    /\ dims \in AllDims
    /\ indices \in InRange(dims)
    /\ lin = 0
    /\ out = <<>>
    /\ ipc = "start"

NextIndex ==
    \/ CallLinearIndex
    \/ CallInverseLinearIndex

SpecIndex == InitIndex /\ [][NextIndex]_vars

(***************************************************************************)
(* Allocation failure.  calloc/malloc may return NULL at any call.  Neither*)
(* BitSet_init nor BitSet_copy_construct returns a value: the only check   *)
(* is BITSET_ASSERT(bits != NULL), after the pointer is stored.            *)
(***************************************************************************)
\* BitSet_init when calloc returns NULL.
BitSet_init_NoMemory(h, bit_len) ==
    /\ steps < MaxSteps
    /\ ~Initialized(h)
    /\ LET b == [bits |-> NULL, bit_len |-> bit_len] IN   \* bit_len is stored first
       /\ bs' = [bs EXCEPT ![h] = b]
       /\ UNCHANGED heap
       /\ Outcome(Call("init", h, 0, bit_len), {}, BITSET_ASSERT(b.bits # NULL))

\* BitSet_copy_construct when malloc returns NULL.  A process the assertion
\* ends stops before dest->bit_len is assigned.  Otherwise (a release build,
\* or raise returned) the call goes on to the copy loop, whose first iteration
\* accesses memory through a null pointer.  With dest = src, src->bits is the
\* NULL just stored.
BitSet_copy_construct_NoMemory(dest, src) ==
    /\ steps < MaxSteps
    /\ Initialized(src) \/ Unallocated(src)
    /\ LET byte_len == BitSet_get_byte_len(bs[src])
           sa == IF dest = src THEN NULL ELSE bs[src].bits
           st == BITSET_ASSERT(NULL # NULL)
       IN
       /\ UNCHANGED heap
       /\ IF st = "trapped"
          THEN /\ bs' = [bs EXCEPT ![dest].bits = NULL]
               /\ Outcome(Call("copy_construct", dest, src, 0), {}, st)
          ELSE /\ bs' = [bs EXCEPT ![dest] = [bits |-> NULL, bit_len |-> bs[src].bit_len]]
               /\ Outcome(Call("copy_construct", dest, src, 0),
                          Touched(NULL, byte_len) \cup Touched(sa, byte_len),
                          IF byte_len > 0 THEN "undefined" ELSE "running")

\* The failing BitSet_copy_construct of a caller that respects the
\* precondition on dest: uninitialized, an object other than src.
BitSet_copy_construct_NoMemory_Uninitialized(dest, src) ==
    /\ ~Initialized(dest)
    /\ dest # src
    /\ BitSet_copy_construct_NoMemory(dest, src)

\* BitSet_set / clear / flip / get on such a handle: the index assertion
\* passes (bit_len was stored) and bits[index / 8] goes through NULL.
SingleBit_Unallocated(name, h, index) ==
    /\ steps < MaxSteps
    /\ Unallocated(h)
    /\ index < bs[h].bit_len
    /\ UNCHANGED <<bs, heap>>
    /\ Outcome(Call(name, h, 0, index), {<<NULL, ByteOf(index)>>}, "undefined")

\* BitSet_set_all / clear_all / not on such a handle: the loop over
\* byte_len bytes goes through NULL when there is a byte to visit.
WholeVector_Unallocated(name, h) ==
    /\ steps < MaxSteps
    /\ Unallocated(h)
    /\ LET byte_len == BitSet_get_byte_len(bs[h]) IN
       /\ UNCHANGED <<bs, heap>>
       /\ Outcome(Call(name, h, 0, 0), Touched(NULL, byte_len),
                  IF byte_len > 0 THEN "undefined" ELSE "running")

\* BitSet_or / and / xor with such a handle as an operand.
TwoVector_Unallocated(name, dest, src) ==
    /\ steps < MaxSteps
    /\ Unallocated(dest) \/ Unallocated(src)
    /\ Unallocated(dest) \/ Initialized(dest)
    /\ Unallocated(src) \/ Initialized(src)
    /\ LET byte_len == BitSet_get_byte_len(Shorter(bs[dest], bs[src])) IN
       /\ UNCHANGED <<bs, heap>>
       /\ Outcome(Call(name, dest, src, 0),
                  Touched(bs[dest].bits, byte_len) \cup Touched(bs[src].bits, byte_len),
                  IF byte_len > 0 THEN "undefined" ELSE "running")

\* BitSet_print on such a handle: the loop calls BitSet_get for every index
\* below bit_len; the first call, for index 0, reads bits[0] through NULL.
BitSet_print_Unallocated(h) ==
    /\ steps < MaxSteps
    /\ Unallocated(h)
    /\ UNCHANGED <<bs, heap>>
    /\ Outcome(Call("print", h, 0, 0),
               IF bs[h].bit_len > 0 THEN BitSet_get_reads(bs[h], 0) ELSE {},
               IF bs[h].bit_len > 0 THEN "undefined" ELSE "running")

\* BitSet_equals with such a handle as an operand: 0 is returned before any
\* access when the bit_len fields differ; otherwise the first iteration of
\* the comparison loop reads through NULL.
BitSet_equals_Unallocated(bs1, bs2) ==
    /\ steps < MaxSteps
    /\ Unallocated(bs1) \/ Unallocated(bs2)
    /\ Unallocated(bs1) \/ Initialized(bs1)
    /\ Unallocated(bs2) \/ Initialized(bs2)
    /\ LET byte_len == BitSet_get_byte_len(bs[bs1])
           faults == bs[bs1].bit_len = bs[bs2].bit_len /\ byte_len > 0
       IN
       /\ UNCHANGED <<bs, heap>>
       /\ Outcome(Call("equals", bs1, bs2, 0),
                  IF faults THEN {<<bs[bs1].bits, 0>>, <<bs[bs2].bits, 0>>} ELSE {},
                  IF faults THEN "undefined" ELSE "running")

\* BitSet_free on such a handle: free(NULL) does nothing.
BitSet_free_Unallocated(h) ==
    /\ steps < MaxSteps
    /\ Unallocated(h)
    /\ UNCHANGED heap
    /\ bs' = [bs EXCEPT ![h] = [bits |-> NULL, bit_len |-> 0]]
    /\ Record(Call("free", h, 0, 0), {})

\* Either build, either behaviour of raise, a caller that respects the
\* preconditions, and an allocator that may fail.
InitNoMemory ==
    /\ BitIdle
    /\ BITSET_DEBUG_MODE \in {0, 1}
    /\ BITSET_DEBUG_BREAK \in IF BITSET_DEBUG_MODE = 1 THEN {"ends", "returns"}
                                                      ELSE {"returns"}
    /\ IdxIdle

NextNoMemory ==
    \/ Next
    \/ \E h \in Handles, n \in BitLens : BitSet_init_NoMemory(h, n)
    \/ \E d \in Handles, s \in Handles :
          BitSet_copy_construct_NoMemory_Uninitialized(d, s)
    \/ \E h \in Handles, i \in 0 .. MaxBitLen, name \in {"set", "clear", "flip", "get"} :
          SingleBit_Unallocated(name, h, i)
    \/ \E h \in Handles, name \in {"set_all", "clear_all", "not"} :
          WholeVector_Unallocated(name, h)
    \/ \E h \in Handles : BitSet_print_Unallocated(h)
    \/ \E d \in Handles, s \in Handles, name \in {"or", "and", "xor"} :
          TwoVector_Unallocated(name, d, s)
    \/ \E h \in Handles, g \in Handles : BitSet_equals_Unallocated(h, g)
    \/ \E h \in Handles : BitSet_free_Unallocated(h)

SpecNoMemory == InitNoMemory /\ [][NextNoMemory]_vars

(***************************************************************************)
(* Any index.  BitSet_set / clear / get / flip as the code runs them for   *)
(* whatever index the caller passes: the assertion, then the access.       *)
(***************************************************************************)
\* index < bs->bit_len, the condition of the second BITSET_ASSERT.
IndexInBounds(b, index) == index < b.bit_len

\* The byte the call stores back (BitSet_get stores nothing).
SingleBitByte(name, byte, index) ==
    IF name = "set" THEN SetByte(byte, index)
    ELSE IF name = "clear" THEN ClearByte(byte, index)
    ELSE IF name = "flip" THEN FlipByte(byte, index)
    ELSE byte

\* A failed assertion that ends the process does so before the access.
\* Otherwise (the assertion holds, the build is a release build, or raise
\* returned) bits[index / 8] is accessed: inside the allocation (a valid bit,
\* or a padding bit of the last byte) the access is an ordinary one; past the
\* allocation it is undefined behaviour.
SingleBit(name, h, index) ==
    /\ steps < MaxSteps
    /\ Initialized(h)
    /\ LET a == bs[h].bits
           off == ByteOf(index)
           st == BITSET_ASSERT(IndexInBounds(bs[h], index))
       IN
       /\ UNCHANGED bs
       /\ IF st = "trapped"
          THEN /\ UNCHANGED heap
               /\ Outcome(Call(name, h, 0, index), {}, st)
          ELSE IF off \in DOMAIN heap[a].mem
          THEN /\ heap' = IF name = "get" THEN heap
                          ELSE StoreAt(heap, a, off, SingleBitByte(name, Load(heap, a, off), index))
               /\ Outcome(Call(name, h, 0, index), {<<a, off>>}, st)
          ELSE /\ UNCHANGED heap
               /\ Outcome(Call(name, h, 0, index), {<<a, off>>}, "undefined")

\* The indices a caller passes for the struct b: the first and the last valid
\* one, then every index from bit_len on through the padding of the last byte
\* to the first one past the allocation.
AnyIndex(b) ==
    {i \in {0, b.bit_len - 1} : 0 <= i /\ i < b.bit_len}
        \cup (b.bit_len .. ByteBits * BitSet_get_byte_len(b))

NextAnyIndex ==
    \/ \E h \in Handles, n \in BitLens : BitSet_init(h, n)
    \/ \E h \in Handles : BitSet_set_all(h)
    \/ \E h \in Handles, name \in {"set", "clear", "flip", "get"} :
          \E i \in AnyIndex(bs[h]) : SingleBit(name, h, i)

\* Either build, either behaviour of raise, and a caller that passes any index.
SpecAnyIndex == InitNoMemory /\ [][NextAnyIndex]_vars

(***************************************************************************)
(* Vocabulary of the properties, defined without the library's operators.  *)
(***************************************************************************)
Bit(b, k) == (b \div (2 ^ k)) % 2           \* bit k of the byte b, bit 0 the least significant
Ceil8(n) == IF n % 8 = 0 THEN n \div 8 ELSE n \div 8 + 1    \* ceil(n / 8)
Mem(b, hp) == hp[b.bits].mem                \* the storage of the struct b
StorageLen(b, hp) == Cardinality(DOMAIN Mem(b, hp))
Valid(b) == 0 .. b.bit_len - 1              \* the valid indices of the struct b
WasInitialized(h) == prev.bs[h].bits \in Addrs /\ prev.heap[prev.bs[h].bits].live
Before(h, index) == BitSet_get(prev.bs[h], prev.heap, index)
Now(h, index) == BitSet_get(bs[h], heap, index)

\* C1: after BitSet_set(bs, i) BitSet_get(bs, i) is 1, after BitSet_clear(bs, i)
\* it is 0, one BitSet_flip(bs, i) inverts it, and a second BitSet_flip(bs, i)
\* right after the first brings it back to what it was before the first.
C1_AfterSingleBitOp ==
    /\ op.name = "set" => Now(op.h, op.index) = 1
    /\ op.name = "clear" => Now(op.h, op.index) = 0
    /\ op.name = "flip" => Now(op.h, op.index) = 1 - Before(op.h, op.index)
C1_FlipTwice ==
    (op.name = "flip" /\ op'.name = "flip" /\ op'.again)
        => BitSet_get(bs'[op.h], heap', op.index) = Before(op.h, op.index)
C1_SetClearFlipGet == []C1_AfterSingleBitOp /\ [][C1_FlipTwice]_vars

\* A second flip of bit 8 of a 9-bit vector has just restored a bit that was 1.
C1_Witness ==
    /\ op.name = "flip" /\ op.again /\ op.index = 8
    /\ bs[op.h].bit_len = 9
    /\ Now(op.h, 8) = 1

\* C2: BitSet_set / BitSet_clear / BitSet_flip at a valid index change at most
\* bit (index % 8), counted from the least significant, of storage byte
\* (index / 8): every other bit of every buffer, both structs and so bit_len
\* stay as they were.  After init(n) and one set(i), bit i reads 1 and every
\* other bit reads 0.
C2_SingleBitFrame ==
    op.name \in {"set", "clear", "flip"} =>
        /\ bs = prev.bs
        /\ \A a \in Addrs :
             /\ heap[a].live = prev.heap[a].live
             /\ DOMAIN heap[a].mem = DOMAIN prev.heap[a].mem
             /\ \A off \in DOMAIN heap[a].mem :
                  IF a = bs[op.h].bits /\ off = op.index \div 8
                  THEN \A k \in 0 .. 7 :
                         k # op.index % 8 =>
                             Bit(heap[a].mem[off], k) = Bit(prev.heap[a].mem[off], k)
                  ELSE heap[a].mem[off] = prev.heap[a].mem[off]
        /\ \A j \in Valid(bs[op.h]) : j # op.index => Now(op.h, j) = Before(op.h, j)
        /\ (op.name = "set" /\ steps = 2 /\ prev.heap[bs[op.h].bits].live) =>
              \A j \in Valid(bs[op.h]) : Now(op.h, j) = IF j = op.index THEN 1 ELSE 0

\* init(9) then set(3): bit 3 is the only bit set.
C2_Witness ==
    /\ op.name = "set" /\ op.index = 3 /\ steps = 2
    /\ bs[op.h].bit_len = 9
    /\ Mem(bs[op.h], heap) = (0 :> 8 @@ 1 :> 0)

\* C3: after BitSet_init(bs, n), for every n >= 0: bit_len is n,
\* BitSet_get_byte_len(bs) is ceil(n / 8) (as it is for every bit_len up to
\* 8 * MaxBitLen), the storage has that many bytes, all zero, and every bit
\* 0 .. n-1 reads 0.
C3_Init ==
    op.name = "init" =>
        /\ bs[op.h].bit_len = op.index
        /\ Initialized(op.h)
        /\ BitSet_get_byte_len(bs[op.h]) = Ceil8(op.index)
        /\ \A n \in 0 .. 8 * MaxBitLen :
             BitSet_get_byte_len([bits |-> NULL, bit_len |-> n]) = Ceil8(n)
        /\ StorageLen(bs[op.h], heap) = Ceil8(op.index)
        /\ \A off \in DOMAIN Mem(bs[op.h], heap) : Mem(bs[op.h], heap)[off] = 0
        /\ \A i \in 0 .. op.index - 1 : Now(op.h, i) = 0

\* init(0) next to a handle of 9 bits: a zero-length buffer.
C3_Witness ==
    /\ op.name = "init" /\ op.index = 0
    /\ Initialized(op.h) /\ StorageLen(bs[op.h], heap) = 0
    /\ \E g \in Handles : Initialized(g) /\ bs[g].bit_len = 9

Min(m, n) == IF m < n THEN m ELSE n
ByteOfBits(f) ==
    f[0] + 2 * f[1] + 4 * f[2] + 8 * f[3] + 16 * f[4] + 32 * f[5] + 64 * f[6] + 128 * f[7]
\* dest OR / AND / XOR src on bytes, bit by bit.
Expected(name, x, y) ==
    LET or  == [k \in 0 .. 7 |-> IF Bit(x, k) = 1 \/ Bit(y, k) = 1 THEN 1 ELSE 0]
        and == [k \in 0 .. 7 |-> IF Bit(x, k) = 1 /\ Bit(y, k) = 1 THEN 1 ELSE 0]
        xor == [k \in 0 .. 7 |-> IF Bit(x, k) # Bit(y, k) THEN 1 ELSE 0]
    IN IF name = "or" THEN ByteOfBits(or)
       ELSE IF name = "and" THEN ByteOfBits(and)
       ELSE ByteOfBits(xor)
InBounds(a, off) == a \in Addrs /\ heap[a].live /\ off \in DOMAIN heap[a].mem

\* What BitSet_or / BitSet_and / BitSet_xor(dest, src) do to dest, to the
\* structs and to the bytes they touch, k being the byte length of the operand
\* with the smaller bit_len.
BinaryOpEffect ==
    LET d == prev.bs[op.h]
        s == prev.bs[op.src]
        k == Ceil8(Min(d.bit_len, s.bit_len))
        dm == prev.heap[d.bits].mem
        sm == prev.heap[s.bits].mem
    IN /\ bs = prev.bs
       /\ \A a \in Addrs : /\ heap[a].live = prev.heap[a].live
                           /\ DOMAIN heap[a].mem = DOMAIN prev.heap[a].mem
                           /\ a # d.bits /\ a # s.bits => heap[a] = prev.heap[a]
       /\ \A i \in DOMAIN dm :
            heap[d.bits].mem[i] = IF i < k THEN Expected(op.name, dm[i], sm[i]) ELSE dm[i]
       /\ acc = Touched(d.bits, k) \cup Touched(s.bits, k)
       /\ \A t \in acc : InBounds(t[1], t[2])
SrcUnchanged == heap[prev.bs[op.src].bits] = prev.heap[prev.bs[op.src].bits]

\* C4 as stated: BitSet_or / BitSet_and / BitSet_xor(dest, src) process exactly
\* k = byte length of the operand with the smaller bit_len: dest[i] becomes
\* dest[i] OR/AND/XOR src[i] for i < k, dest bytes from k on are untouched, no
\* byte outside either buffer is touched, both bit_len are unchanged, and src
\* is unchanged.
C4_AsStated ==
    op.name \in {"or", "and", "xor"} => BinaryOpEffect /\ SrcUnchanged

\* C4, amended: the same, src being unchanged when it is another vector than
\* dest (BitSet_xor(a, a) clears the first k bytes of a).
C4_BinaryOps ==
    op.name \in {"or", "and", "xor"} =>
        BinaryOpEffect /\ (op.src # op.h => SrcUnchanged)

\* and(dest, src), dest of 9 bits all set (two bytes 0xFF), src of 3 bits all
\* clear: the first byte of dest is cleared, the second is still 0xFF.
C4_Witness ==
    /\ op.name = "and" /\ op.src # op.h
    /\ bs[op.h].bit_len = 9 /\ bs[op.src].bit_len = 3
    /\ Mem(prev.bs[op.h], prev.heap) = (0 :> 255 @@ 1 :> 255)
    /\ Mem(bs[op.h], heap) = (0 :> 0 @@ 1 :> 255)

Mutations == {"set", "clear", "flip", "set_all", "clear_all", "not",
              "or", "and", "xor", "free"}

\* C5: BitSet_copy_construct(dest, src) gives dest the bit_len of src and
\* storage of its own, byte for byte that of src, so BitSet_equals(dest, src)
\* is 1, and leaves src as it was; afterwards a mutation through one handle
\* (set, clear, flip, set_all, clear_all, not, or, and, xor, free) leaves the
\* struct and the storage of every other handle unchanged.
C5_CopyConstruct ==
    /\ op.name = "copy_construct" =>
           /\ Initialized(op.h)
           /\ bs[op.h].bit_len = prev.bs[op.src].bit_len
           /\ bs[op.h].bits # bs[op.src].bits
           /\ Mem(bs[op.h], heap) = Mem(prev.bs[op.src], prev.heap)
           /\ BitSet_equals(bs[op.h], bs[op.src], heap) = 1
           /\ bs[op.src] = prev.bs[op.src]
           /\ heap[bs[op.src].bits] = prev.heap[bs[op.src].bits]
    /\ op.name \in Mutations =>
           \A g \in Handles \ {op.h} :
               WasInitialized(g) =>
                   /\ bs[g] = prev.bs[g]
                   /\ heap[bs[g].bits] = prev.heap[bs[g].bits]

\* A bit of a copy of a 9-bit vector with a bit set was flipped: the copy was
\* equal to its source and no longer is.
C5_Witness ==
    /\ op.name = "flip" /\ origin[op.h] = "copy"
    /\ \E g \in Handles \ {op.h} :
         /\ Initialized(g) /\ origin[g] = "init" /\ bs[g].bit_len = 9
         /\ \E i \in Valid(bs[g]) : Now(g, i) = 1
         /\ BitSet_equals(prev.bs[op.h], prev.bs[g], prev.heap) = 1
         /\ BitSet_equals(bs[op.h], bs[g], heap) = 0

\* The row-major linear index: the coordinate of each dimension times the
\* product of the extents of the dimensions after it.
RECURSIVE Product(_, _)
Product(ds, from) == IF from > Len(ds) THEN 1 ELSE ds[from] * Product(ds, from + 1)
RECURSIVE RowMajorFrom(_, _, _)
RowMajorFrom(ds, is, k) ==
    IF k > Len(ds) THEN 0 ELSE is[k] * Product(ds, k + 1) + RowMajorFrom(ds, is, k + 1)

\* C6: for dims with every extent >= 1 and indices with 0 <= indices[i] < dims[i],
\* linear_index is the row-major index (last dimension fastest) and
\* inverse_linear_index of it gives the indices back; dims [2,2], indices [1,1]
\* give 3.
C6_RoundTrip ==
    /\ ipc \in {"mapped", "done"} =>
           /\ lin = RowMajorFrom(dims, indices, 1)
           /\ (dims = <<2, 2>> /\ indices = <<1, 1>>) => lin = 3
    /\ ipc = "done" => out = indices

\* The round trip of [1, 0, 2] in [2, 3, 3], three unequal coordinates.
C6_Witness ==
    /\ ipc = "done"
    /\ dims = <<2, 3, 3>> /\ indices = <<1, 0, 2>>
    /\ lin = 11 /\ out = <<1, 0, 2>>

\* C7: BitSet_equals(a, b) is 0 when the bit_len differ, and otherwise 1
\* exactly when the storage bytes are identical, padding bits included; a flip
\* of one valid bit of one of two equal vectors makes them unequal.
C7_Equals ==
    /\ \A a \in Handles, b \in Handles :
         (Initialized(a) /\ Initialized(b)) =>
             BitSet_equals(bs[a], bs[b], heap) =
                 IF bs[a].bit_len # bs[b].bit_len THEN 0
                 ELSE IF Mem(bs[a], heap) = Mem(bs[b], heap) THEN 1 ELSE 0
    /\ op.name = "flip" =>
         \A g \in Handles \ {op.h} :
             (WasInitialized(g) /\ BitSet_equals(prev.bs[op.h], prev.bs[g], prev.heap) = 1)
                 => /\ BitSet_equals(bs[op.h], bs[g], heap) = 0
                    /\ BitSet_equals(bs[g], bs[op.h], heap) = 0

\* Two vectors of 9 bits, each made by init and a set of bit 8, are equal.
C7_Witness ==
    /\ op.name = "set" /\ op.index = 8 /\ steps = 4
    /\ \A h \in Handles : /\ origin[h] = "init" /\ bs[h].bit_len = 9
                          /\ Mem(bs[h], heap) = (0 :> 0 @@ 1 :> 1)
    /\ BitSet_equals(bs[1], bs[2], heap) = 1

\* C8: after BitSet_set_all every storage byte is 0xFF and every bit below
\* bit_len reads 1; after BitSet_clear_all every storage byte is 0 and every
\* bit reads 0; neither changes a struct (bit_len) or the size of a buffer.
C8_SetAllClearAll ==
    op.name \in {"set_all", "clear_all"} =>
        LET v == IF op.name = "set_all" THEN 1 ELSE 0 IN
        /\ bs = prev.bs
        /\ DOMAIN Mem(bs[op.h], heap) = DOMAIN Mem(prev.bs[op.h], prev.heap)
        /\ \A off \in DOMAIN Mem(bs[op.h], heap) : Mem(bs[op.h], heap)[off] = 255 * v
        /\ \A i \in Valid(bs[op.h]) : Now(op.h, i) = v

\* set_all on a 9-bit vector that had only bit 3 set: both bytes 0xFF, the
\* seven padding bits of the second included.
C8_Witness ==
    /\ op.name = "set_all" /\ bs[op.h].bit_len = 9
    /\ Mem(prev.bs[op.h], prev.heap) = (0 :> 8 @@ 1 :> 0)
    /\ Mem(bs[op.h], heap) = (0 :> 255 @@ 1 :> 255)

\* C9: BitSet_not complements every storage byte as an 8-bit value, so every
\* bit below bit_len reads the negation of what it read, and a second
\* BitSet_not right after restores every storage byte.
C9_AfterNot ==
    op.name = "not" =>
        /\ bs = prev.bs
        /\ DOMAIN Mem(bs[op.h], heap) = DOMAIN Mem(prev.bs[op.h], prev.heap)
        /\ \A off \in DOMAIN Mem(bs[op.h], heap) :
             Mem(bs[op.h], heap)[off] = 255 - Mem(prev.bs[op.h], prev.heap)[off]
        /\ \A i \in Valid(bs[op.h]) : Now(op.h, i) = 1 - Before(op.h, i)
C9_NotTwice ==
    (op.name = "not" /\ op'.name = "not" /\ op'.again)
        => Mem(bs'[op.h], heap') = Mem(prev.bs[op.h], prev.heap)
C9_Not == []C9_AfterNot /\ [][C9_NotTwice]_vars

\* A second not on a 9-bit vector that had only bit 3 set.
C9_Witness ==
    /\ op.name = "not" /\ op.again /\ bs[op.h].bit_len = 9
    /\ Mem(prev.bs[op.h], prev.heap) = (0 :> 247 @@ 1 :> 255)
    /\ Mem(bs[op.h], heap) = (0 :> 8 @@ 1 :> 0)

\* C10: in every state the storage of each initialized handle has
\* ceil(bit_len / 8) bytes, the struct of a handle changes only by its own
\* init, copy_construct or free, and every byte a call touched, or that
\* BitSet_get or BitSet_equals would read, lies inside a live buffer, at an
\* offset below ceil(bit_len / 8) of the handle that owns it.
OwnedBelowLen(a, off) ==
    /\ InBounds(a, off)
    /\ \E h \in Handles : bs[h].bits = a /\ off < Ceil8(bs[h].bit_len)
C10_StorageInvariant ==
    /\ \A h \in Handles :
         Initialized(h) => StorageLen(bs[h], heap) = Ceil8(bs[h].bit_len)
    /\ \A h \in Handles :
         (WasInitialized(h) /\ ~(op.name = "free" /\ op.h = h)) => bs[h] = prev.bs[h]
    /\ \A t \in acc : OwnedBelowLen(t[1], t[2])
    /\ \A h \in Handles :
         Initialized(h) =>
             \A t \in UNION {BitSet_get_reads(bs[h], i) : i \in Valid(bs[h])} :
                 OwnedBelowLen(t[1], t[2])
    /\ \A a \in Handles, b \in Handles :
         (Initialized(a) /\ Initialized(b)) =>
             \A t \in BitSet_equals_reads(bs[a], bs[b], heap) : OwnedBelowLen(t[1], t[2])

\* xor(dest, src), dest of 3 bits and src of 9 bits with bit 8 set: one byte
\* of each was touched, the second byte of src was not.
C10_Witness ==
    /\ op.name = "xor" /\ op.src # op.h
    /\ bs[op.h].bit_len = 3 /\ bs[op.src].bit_len = 9
    /\ Now(op.src, 8) = 1
    /\ acc = {<<bs[op.h].bits, 0>>, <<bs[op.src].bits, 0>>}

(***************************************************************************)
(* Failures: allocation, indices out of range.                             *)
(***************************************************************************)
\* The last call was an init or a copy_construct whose allocation failed.
AllocationFailed ==
    /\ op.name \in {"init", "copy_construct"}
    /\ bs[op.h].bits = NULL

\* C11: a failed allocation in BitSet_init or BitSet_copy_construct comes back
\* to the caller as an error: the process is not ended by it, and no call, the
\* failed one included, accesses storage through the null pointer it left.
C11_AllocationError ==
    /\ AllocationFailed => status = "running"
    /\ \A t \in acc : t[1] # NULL

\* C12: in a debug build, BitSet_set / clear / flip / get with any index >=
\* bit_len, index = bit_len included, fail at the assertion index < bit_len:
\* the failure is signalled, no byte of storage was accessed by the call, and
\* every struct (so bit_len) and every buffer is as it was before the call.
C12_IndexOutOfRange ==
    (/\ BITSET_DEBUG_MODE = 1
     /\ op.name \in {"set", "clear", "flip", "get"}
     /\ op.index >= prev.bs[op.h].bit_len)
        => /\ status = "trapped"
           /\ acc = {}
           /\ bs = prev.bs
           /\ heap = prev.heap

\* A debug build whose raise ends the process has just refused
\* BitSet_flip(bs, 9) on a 9-bit vector with a bit set.
C12_Witness ==
    /\ BITSET_DEBUG_MODE = 1
    /\ op.name = "flip" /\ op.index = 9
    /\ bs[op.h].bit_len = 9
    /\ \E i \in Valid(bs[op.h]) : Now(op.h, i) = 1
    /\ status = "trapped"

(***************************************************************************)
(* Lifecycle and ownership.                                                *)
(***************************************************************************)
\* The handles whose bits field holds the address a.
Owners(a) == {h \in Handles : bs[h].bits = a}

\* C13: a handle is Uninitialized or Initialized.  BitSet_init and
\* BitSet_copy_construct take their handle from Uninitialized to Initialized;
\* BitSet_free takes it back, frees its buffer and leaves bits NULL and
\* bit_len 0; no other call, and no call on another handle, changes which
\* state a handle is in.  Every live buffer is owned by exactly one handle, no
\* handle points at a freed buffer, a buffer comes to life only as the storage
\* of the handle just constructed, and it is freed only by BitSet_free of the
\* handle that owned it.
C13_Lifecycle ==
    /\ \A h \in Handles : (origin[h] # "none") <=> Initialized(h)
    /\ op.name \in {"init", "copy_construct"} =>
          ~WasInitialized(op.h) /\ Initialized(op.h)
    /\ op.name = "free" =>
          /\ WasInitialized(op.h) /\ ~Initialized(op.h)
          /\ bs[op.h] = [bits |-> NULL, bit_len |-> 0]
          /\ ~heap[prev.bs[op.h].bits].live
    /\ \A h \in Handles :
          (h # op.h \/ op.name \notin {"init", "copy_construct", "free"})
              => (Initialized(h) <=> WasInitialized(h)) /\ bs[h] = prev.bs[h]
    /\ \A a \in Addrs : heap[a].live => Cardinality(Owners(a)) = 1
    /\ \A h \in Handles : bs[h].bits \in Addrs => heap[bs[h].bits].live
    /\ \A a \in Addrs :
          (~prev.heap[a].live /\ heap[a].live)
              => op.name \in {"init", "copy_construct"} /\ bs[op.h].bits = a
    /\ \A a \in Addrs :
          (prev.heap[a].live /\ ~heap[a].live)
              => op.name = "free" /\ prev.bs[op.h].bits = a

\* A handle that was initialized and freed has just been initialized again,
\* while the other handle owns a copy made of it before the free.
C13_Witness ==
    /\ op.name = "init" /\ steps = 4
    /\ prev.bs[op.h] = [bits |-> NULL, bit_len |-> 0]
    /\ Initialized(op.h)
    /\ \E g \in Handles : g # op.h /\ origin[g] = "copy" /\ bs[g].bits # bs[op.h].bits

(***************************************************************************)
(* Padding bits.                                                           *)
(***************************************************************************)
\* The padding positions of the struct b are bit_len .. 8 * ceil(bit_len / 8) - 1.
StoredBit(b, hp, k) == Bit(hp[b.bits].mem[k \div 8], k % 8)
\* Every padding bit is 0: the last byte, if it has padding, holds a number
\* below 2 ^ (bit_len % 8).
PaddingZero(b, hp) ==
    b.bit_len % 8 = 0 \/ hp[b.bits].mem[b.bit_len \div 8] < 2 ^ (b.bit_len % 8)

\* Every padding bit is 0 in a vector made by init, set / clear / flip at valid
\* indices, clear_all, copy_construct from such a vector and or / and / xor
\* with such vectors of the same bit_len.
C14_IndexedPadding ==
    \A h \in Handles :
        (Initialized(h) /\ lineage[h] = "indexed") => PaddingZero(bs[h], heap)

\* Two such vectors of the same bit_len are BitSet_equals exactly when they
\* agree on every bit below bit_len.
C14_IndexedEquals ==
    \A h \in Handles, g \in Handles :
        (/\ Initialized(h) /\ lineage[h] = "indexed"
         /\ Initialized(g) /\ lineage[g] = "indexed"
         /\ bs[h].bit_len = bs[g].bit_len)
            => (BitSet_equals(bs[h], bs[g], heap) = 1
                   <=> \A i \in Valid(bs[h]) :
                          StoredBit(bs[h], heap, i) = StoredBit(bs[g], heap, i))

\* The claim as stated: the two properties above, and a vector has a nonzero
\* padding bit only if it went through set_all or not, or was combined with
\* (or copied from) a vector that did.
C14_AsStated ==
    /\ C14_IndexedPadding
    /\ C14_IndexedEquals
    /\ \A h \in Handles :
          (Initialized(h) /\ ~PaddingZero(bs[h], heap)) => lineage[h] = "whole"

\* C14: the two properties above, and the calls that turn the padding of a
\* vector from all zero to not all zero (or construct it so) are: set_all and
\* not on it; or / xor into it from a vector whose own padding is not all zero
\* or whose bit_len is larger; copy_construct from a vector whose padding is
\* not all zero.
C14_Padding ==
    /\ C14_IndexedPadding
    /\ C14_IndexedEquals
    /\ \A h \in Handles :
          (/\ Initialized(h) /\ ~PaddingZero(bs[h], heap)
           /\ WasInitialized(h) => PaddingZero(prev.bs[h], prev.heap))
              => /\ op.h = h
                 /\ \/ op.name \in {"set_all", "not"}
                    \/ /\ op.name \in {"or", "xor"}
                       /\ \/ ~PaddingZero(prev.bs[op.src], prev.heap)
                          \/ prev.bs[op.src].bit_len > bs[h].bit_len
                    \/ /\ op.name = "copy_construct"
                       /\ ~PaddingZero(prev.bs[op.src], prev.heap)

\* Two 3-bit vectors made by init, set and or, equal with bit 1 set and five
\* padding bits each.
C14_Witness ==
    /\ op.name = "or" /\ op.h # op.src
    /\ \A h \in Handles : /\ Initialized(h) /\ lineage[h] = "indexed"
                          /\ bs[h].bit_len = 3
                          /\ StoredBit(bs[h], heap, 1) = 1
    /\ BitSet_equals(bs[1], bs[2], heap) = 1

====
